---------------------------- MODULE Spec2Model ----------------------------
(***************************************************************************)
(* The user store, the user factory and the agreement forms of polar_auth   *)
(* (users/models.py, users/forms.py), as a state machine.                   *)
(*                                                                          *)
(* Spec      : user creation (create_user, create_superuser) and the        *)
(*             registration form, on a store that starts empty.             *)
(* FlowSpec  : one stored user whose fields are edited and who submits the  *)
(*             privacy and consent forms.                                   *)
(* StepsSpec : that user taking only the three enrolment steps.             *)
(***************************************************************************)
EXTENDS Integers, Sequences, FiniteSets, TLC

VARIABLES
    users,           \* the rows of the User table, in insertion order
    last_timestamp,  \* uuid1's clock: the last 60-bit timestamp handed out
    outbox,          \* number of messages dispatched (django.core.mail.outbox)
    last             \* the call just made: its arguments and what it returned

vars == <<users, last_timestamp, outbox, last>>

----------------------------------------------------------------------------
(* Bounds of the model.                                                     *)

MaxUsers == 2
MaxTimeHi == 1
MaxOutbox == 2

----------------------------------------------------------------------------
(* Python values.  None is a token of its own, distinct from every string. *)

PyNone == "<None>"

Email(local, domain) == [local |-> local, domain |-> domain]
NoneEmail == Email(PyNone, PyNone)
EmptyEmail == Email("", "")

\* `not x` for a str-or-None argument: true of None and of the empty string.
MissingEmail(e) == e = NoneEmail \/ e = EmptyEmail
\* The password check written as `password is None`.
MissingPasswordNoneOnly(p) == p = PyNone

MissingPassword(p) == p = PyNone \/ p = ""

\* str.lower() on the domains the model draws from.
Lower(s) == IF s = "AALTO.FI" THEN "aalto.fi" ELSE s

\* BaseUserManager.normalize_email: the domain part is lowercased, the local
\* part kept.
normalize_email(e) == Email(e.local, Lower(e.domain))

\* AbstractBaseUser.set_password stores a hash, never the raw password.
make_password(p) == <<"pbkdf2_sha256", p>>

RECURSIVE IntToStr(_)
\* str(n) for n >= 0, as the sequence of its decimal digits: what the
\* CharField user_id holds once the integer is saved.
IntToStr(n) == IF n < 10 THEN <<n>> ELSE Append(IntToStr(n \div 10), n % 10)

----------------------------------------------------------------------------
(* uuid.uuid1().int >> 96                                                   *)
(* The 60-bit timestamp is kept as its two parts: low, the 32 low bits      *)
(* (time_low), and hi, the 28 bits above them (time_mid, time_hi).          *)

\* Two values of the 32 low bits stand for all of 0 .. 2^32-1.
TimeLows == {0, 1}

Timestamps == [hi : 0..MaxTimeHi, low : TimeLows]

\* uuid._last_timestamp before the first call (None): earlier than any.
NoTimestamp == [hi |-> -1, low |-> 0]

\* uuid1 never hands out a timestamp twice: a reading not after the last one
\* is replaced by the next tick.
Later(s, t) == s.hi > t.hi \/ (s.hi = t.hi /\ s.low > t.low)

\* The 128-bit value, most significant field first:
\* time_low (32) | time_mid, time_hi_version (32) | clock_seq (16) | node (48).
uuid1(ts) == [time_low |-> ts.low, time_mid_hi |-> ts.hi,
              clock_seq |-> "clock_seq", node |-> "node"]

\* x >> 96 of a 128-bit value keeps its 32 most significant bits.
ShiftRight96(u) == u.time_low

NewUserId(ts) == IntToStr(ShiftRight96(uuid1(ts)))

----------------------------------------------------------------------------
(* The User model.                                                          *)

\* self.model(email=...): every other field takes its declared default.
NewUser(email) ==
    [email |-> email,
     password |-> <<>>,
     is_superuser |-> FALSE,
     is_staff |-> FALSE,
     is_active |-> TRUE,
     consent |-> FALSE,
     privacy |-> FALSE,
     first_survey_done |-> FALSE,
     authorized |-> FALSE,
     polar_id |-> PyNone,
     user_id |-> <<>>,
     has_received_email |-> FALSE,
     device_sent |-> FALSE,
     dropped_out |-> FALSE,
     received_data |-> FALSE]

\* Python's `a and b`: a when a is falsy, b otherwise.
PyAnd(a, b) == IF a THEN b ELSE a

\* The check with the survey left out.
ready_without_survey(u) == PyAnd(u.privacy, u.consent)

ready_to_authorize(u) == PyAnd(PyAnd(u.privacy, u.consent), u.first_survey_done)

\* email is declared unique=True: saving a second row with it fails.
EmailTaken(rows, e) == \E i \in 1..Len(rows) : rows[i].email = e

----------------------------------------------------------------------------
(* Inputs.                                                                  *)

CreateEmails == {NoneEmail, EmptyEmail,
                 Email("user1", "aalto.fi"), Email("user1", "AALTO.FI"),
                 Email("user", "example.com")}
CreatePasswords == {PyNone, "", "a"}

FormEmails == {EmptyEmail,
               Email("user1", "aalto.fi"), Email("user3", "aalto.fi"),
               Email("user", "example.com")}
\* (password1, password2) as typed: equal, different, first one left empty.
FormPasswordPairs == {<<"1Xx7*4&ZFNNM", "1Xx7*4&ZFNNM">>,
                      <<"1Xx7*4&ZFNNM", "other">>,
                      <<"", "1Xx7*4&ZFNNM">>}

\* The four acknowledgements as ticked: all of them, or all but one.
AckNames == {"has_own_device", "full_time",
             "do_not_foresee_changing_employer", "will_return_tracker"}
AckChoices == {[n \in AckNames |-> TRUE]}
              \cup {[n \in AckNames |-> n # off] : off \in AckNames}

AllAcked == [n \in AckNames |-> TRUE]

\* Submissions: the correct one for each email, and each of them with one
\* thing wrong (an acknowledgement not ticked, or the passwords).
RegisterData ==
    {[email |-> e,
      has_own_device |-> x[1]["has_own_device"],
      full_time |-> x[1]["full_time"],
      do_not_foresee_changing_employer |->
          x[1]["do_not_foresee_changing_employer"],
      will_return_tracker |-> x[1]["will_return_tracker"],
      password1 |-> x[2][1],
      password2 |-> x[2][2]] :
        e \in FormEmails,
        x \in {y \in AckChoices \X FormPasswordPairs :
                   y[1] = AllAcked \/ y[2][1] = y[2][2]}}

NoCall == [op |-> "none"]

----------------------------------------------------------------------------
(* UserManager                                                              *)

\* create_user with consent taken from an argument instead of False.
CreateUserRowConsentFromAdmin(email, password, is_admin, ts) ==
    [NewUser(normalize_email(email)) EXCEPT
        !.password = make_password(password),
        !.is_superuser = is_admin,
        !.consent = is_admin,
        !.user_id = NewUserId(ts)]

\* The row create_user builds before saving it.  admin, staff and active are
\* plain attributes, not columns: only is_superuser keeps an argument.
CreateUserRow(email, password, is_admin, ts) ==
    [NewUser(normalize_email(email)) EXCEPT
        !.password = make_password(password),
        !.is_superuser = is_admin,
        !.consent = FALSE,
        !.user_id = NewUserId(ts)]

\* The row create_superuser builds: is_staff is a column and is set.
CreateSuperuserRow(email, password, ts) ==
    [NewUser(normalize_email(email)) EXCEPT
        !.password = make_password(password),
        !.is_staff = TRUE,
        !.is_superuser = TRUE,
        !.consent = FALSE,
        !.user_id = NewUserId(ts)]

\* The two checks that open both factory methods, then uuid1(), then save().
\* row[ts] is the row the method builds when uuid1 reads timestamp ts.
Create(op, email, password, row, emailMsg, passwordMsg) ==
    LET call == [op |-> op, email |-> email, password |-> password] IN
    IF MissingEmail(email) THEN
        /\ last' = call @@ [outcome |-> "ValueError", message |-> emailMsg,
                            target |-> 0]
        /\ UNCHANGED <<users, last_timestamp, outbox>>
    ELSE IF MissingPassword(password) THEN
        /\ last' = call @@ [outcome |-> "ValueError", message |-> passwordMsg,
                            target |-> 0]
        /\ UNCHANGED <<users, last_timestamp, outbox>>
    ELSE
        \E ts \in Timestamps :
            /\ Later(ts, last_timestamp)
            /\ last_timestamp' = ts
            /\ IF EmailTaken(users, row[ts].email) THEN
                   /\ last' = call @@ [outcome |-> "IntegrityError",
                                       message |-> "UNIQUE constraint failed",
                                       target |-> 0]
                   /\ UNCHANGED <<users, outbox>>
               ELSE
                   /\ Len(users) < MaxUsers
                   /\ users' = Append(users, row[ts])
                   /\ last' = call @@ [outcome |-> "ok", message |-> "",
                                       target |-> Len(users) + 1]
                   /\ UNCHANGED outbox

create_user(email, password, is_admin, is_staff, is_active) ==
    Create("create_user", email, password,
           [ts \in Timestamps |-> CreateUserRow(email, password, is_admin, ts)],
           "User email missing", "User pasword missing")

create_superuser(email, password) ==
    Create("create_superuser", email, password,
           [ts \in Timestamps |-> CreateSuperuserRow(email, password, ts)],
           "User email missing", "User password missing")

----------------------------------------------------------------------------
(* UserRegisterForm(UserCreationForm): fields = ['email'] plus the two      *)
(* password fields of the base class.  The other submitted keys are not     *)
(* fields of the form and are not read.                                     *)

WellFormedEmail(e) == e.local # "" /\ e.domain # ""

\* form.errors: the names of the fields is_valid() rejects.
RegisterFormErrors(rows, data) ==
    (IF data.email = EmptyEmail \/ ~WellFormedEmail(data.email)
        \/ EmailTaken(rows, data.email)
     THEN {"email"} ELSE {})
    \cup (IF data.password1 = "" THEN {"password1"} ELSE {})
    \cup (IF data.password2 = ""
             \/ (data.password1 # "" /\ data.password1 # data.password2)
          THEN {"password2"} ELSE {})

\* form.non_field_errors(): the form defines no clean() of its own.
RegisterNonFieldErrors(rows, data) == {}

\* save() that carries a ticked acknowledgement over into consent.
RegisterFormRowConsented(data) ==
    [NewUser(data.email) EXCEPT
        !.password = make_password(data.password1),
        !.consent = data.will_return_tracker]

\* UserCreationForm.save(): the model instance built from the cleaned email,
\* with the password hashed; the manager's create_user is not called.
RegisterFormRow(data) ==
    [NewUser(data.email) EXCEPT !.password = make_password(data.password1)]

\* form.is_valid(), then form.save() when it is.
RegisterFormSubmit(data) ==
    LET errors == RegisterFormErrors(users, data)
        non_field == RegisterNonFieldErrors(users, data)
        call == [op |-> "register", data |-> data, errors |-> errors,
                 non_field_errors |-> non_field]
    IN  IF errors # {} \/ non_field # {} THEN
            /\ last' = call @@ [outcome |-> "invalid", target |-> 0]
            /\ UNCHANGED <<users, last_timestamp, outbox>>
        ELSE
            /\ Len(users) < MaxUsers
            /\ users' = Append(users, RegisterFormRow(data))
            /\ last' = call @@ [outcome |-> "saved", target |-> Len(users) + 1]
            /\ UNCHANGED <<last_timestamp, outbox>>

----------------------------------------------------------------------------
(* User creation on an empty store.                                         *)

Init ==
    /\ users = <<>>
    /\ last_timestamp = NoTimestamp
    /\ outbox = 0
    /\ last = NoCall

CreateUserCall ==
    \E email \in CreateEmails, password \in CreatePasswords,
       is_admin \in BOOLEAN, is_staff \in BOOLEAN, is_active \in BOOLEAN :
        create_user(email, password, is_admin, is_staff, is_active)

CreateSuperuserCall ==
    \E email \in CreateEmails, password \in CreatePasswords :
        create_superuser(email, password)

RegisterCall == \E data \in RegisterData : RegisterFormSubmit(data)

Next == CreateUserCall \/ CreateSuperuserCall \/ RegisterCall

Spec == Init /\ [][Next]_vars

----------------------------------------------------------------------------
(* One stored user: field edits and the two agreement forms.                *)

NumConsentFields == 6

BooleanFields == {"consent", "privacy", "first_survey_done", "authorized",
                  "has_received_email", "device_sent", "dropped_out"}
PolarIds == {PyNone, "polar1"}

\* user.<field> = value; user.save()
SaveField(i, field, value) ==
    /\ users' = [users EXCEPT ![i] = [@ EXCEPT ![field] = value]]
    /\ last' = [op |-> "save", target |-> i, field |-> field, value |-> value]
    /\ UNCHANGED <<last_timestamp, outbox>>

\* The first survey is handed in: the survey view marks the user.
FirstSurveyCompleted(i) ==
    /\ users' = [users EXCEPT ![i].first_survey_done = TRUE]
    /\ last' = [op |-> "first_survey", target |-> i]
    /\ UNCHANGED <<last_timestamp, outbox>>

\* user.ready_to_authorize() is called and its value kept.
ReadyToAuthorizeCall(i) ==
    /\ last' = [op |-> "ready_to_authorize", target |-> i,
                result |-> ready_to_authorize(users[i])]
    /\ UNCHANGED <<users, last_timestamp, outbox>>

(* PrivacyForm: one required checkbox, privacy.                             *)

PrivacyFormErrors(data) == IF data.privacy THEN {} ELSE {"privacy"}

\* The condition with the survey left out.
PrivacyFormNotifiesOnConsent(u) == u.consent

\* Whether saving the privacy form sends the message: the other two steps
\* are already done.
PrivacyFormNotifies(u) == u.consent /\ u.first_survey_done

PrivacyFormSubmit(i, data) ==
    LET errors == PrivacyFormErrors(data)
        call == [op |-> "privacy_form", target |-> i, data |-> data,
                 errors |-> errors]
    IN  IF errors # {} THEN
            /\ last' = call @@ [outcome |-> "invalid"]
            /\ UNCHANGED <<users, last_timestamp, outbox>>
        ELSE
            /\ users' = [users EXCEPT ![i].privacy = data.privacy]
            /\ IF PrivacyFormNotifies(users[i])
               THEN outbox < MaxOutbox /\ outbox' = outbox + 1
               ELSE outbox' = outbox
            /\ last' = call @@ [outcome |-> "saved"]
            /\ UNCHANGED last_timestamp

(* ConsentForm(forms.ModelForm): fields = ['consent'].  The form has the    *)
(* one checkbox the model's BooleanField gives it, which is not required;   *)
(* field_1 .. field_6 of a submission are not fields of the form.           *)

\* A submission: the consent checkbox, and field_1 .. field_6 with all of
\* them ticked or all but one.
ConsentData ==
    [consent : BOOLEAN,
     fields : {[k \in 1..NumConsentFields |-> TRUE]}
              \cup {[k \in 1..NumConsentFields |-> k # off] :
                        off \in 1..NumConsentFields}]

\* form.errors: no field of the form can fail.
ConsentFormErrors(data) == {}

\* What ModelForm.save() writes: the cleaned checkbox, unticked when absent.
ConsentFormValue(data) == data.consent

\* Messages ModelForm.save() sends: the form overrides nothing.
ConsentFormNotifies(u) == FALSE

ConsentFormSubmit(i, data) ==
    LET errors == ConsentFormErrors(data)
        call == [op |-> "consent_form", target |-> i, data |-> data,
                 errors |-> errors]
    IN  IF errors # {} THEN
            /\ last' = call @@ [outcome |-> "invalid"]
            /\ UNCHANGED <<users, last_timestamp, outbox>>
        ELSE
            /\ users' = [users EXCEPT ![i].consent = ConsentFormValue(data)]
            /\ IF ConsentFormNotifies(users[i])
               THEN outbox < MaxOutbox /\ outbox' = outbox + 1
               ELSE outbox' = outbox
            /\ last' = call @@ [outcome |-> "saved"]
            /\ UNCHANGED last_timestamp

\* The store after User.objects.create_user("user1@aalto.fi", password="a").
FlowInit ==
    /\ last_timestamp \in Timestamps
    /\ users = <<CreateUserRow(Email("user1", "aalto.fi"), "a", FALSE,
                               last_timestamp)>>
    /\ outbox = 0
    /\ last = NoCall

SaveBooleanCall ==
    \E i \in 1..Len(users), f \in BooleanFields, v \in BOOLEAN :
        SaveField(i, f, v)

SavePolarIdCall ==
    \E i \in 1..Len(users), v \in PolarIds : SaveField(i, "polar_id", v)

FirstSurveyCall == \E i \in 1..Len(users) : FirstSurveyCompleted(i)

ReadyCall == \E i \in 1..Len(users) : ReadyToAuthorizeCall(i)

PrivacyFormCall ==
    \E i \in 1..Len(users), data \in [privacy : BOOLEAN] :
        PrivacyFormSubmit(i, data)

ConsentFormCall ==
    \E i \in 1..Len(users), data \in ConsentData : ConsentFormSubmit(i, data)

FlowNext ==
    \/ SaveBooleanCall
    \/ SavePolarIdCall
    \/ FirstSurveyCall
    \/ ReadyCall
    \/ PrivacyFormCall
    \/ ConsentFormCall

FlowSpec == FlowInit /\ [][FlowNext]_vars

\* The same user taking only the three enrolment steps, in any order and any
\* number of times.
StepsNext == FirstSurveyCall \/ PrivacyFormCall \/ ConsentFormCall

StepsSpec == FlowInit /\ [][StepsNext]_vars

----------------------------------------------------------------------------
(* Properties.                                                              *)

AllowedDomain == "aalto.fi"
FieldNames == <<"field_1", "field_2", "field_3", "field_4", "field_5",
                "field_6">>
CreateOps == {"create_user", "create_superuser"}
FormOps == {"privacy_form", "consent_form"}
AllThree(u) == u.privacy /\ u.consent /\ u.first_survey_done

\* C1: create_user and create_superuser called with an empty or missing
\* email, or an empty or missing password, end in a ValueError and leave the
\* stored users exactly as they were.
CreateRejectsMissingCredentials ==
    [][(/\ last'.op \in CreateOps
        /\ \/ last'.email \in {NoneEmail, EmptyEmail}
           \/ last'.password \in {PyNone, ""})
       => (last'.outcome = "ValueError" /\ users' = users)]_vars

\* C1 witness: create_superuser was refused for an empty password while a
\* user was already stored.
CreateRejectedWitness ==
    /\ last.op = "create_superuser"
    /\ last.email = Email("user1", "aalto.fi")
    /\ last.password = ""
    /\ last.outcome = "ValueError"
    /\ Len(users) = 1

\* C2: any two different stored users have different user_id values.
DistinctUserIds ==
    \A i, j \in 1..Len(users) :
        i # j => users[i].user_id # users[j].user_id

\* C3: the user create_user has just stored has consent, privacy,
\* first_survey_done, has_received_email, device_sent and received_data
\* false, no polar_id, and is not ready to authorize, whatever is_admin,
\* is_staff and is_active were.
FreshUserFlagsFalse ==
    (last.op = "create_user" /\ last.outcome = "ok") =>
        LET u == users[last.target] IN
            /\ ~u.consent
            /\ ~u.privacy
            /\ ~u.first_survey_done
            /\ ~u.has_received_email
            /\ ~u.device_sent
            /\ ~u.received_data
            /\ u.polar_id = PyNone
            /\ ready_to_authorize(u) = FALSE

\* C3 witness: create_user stored a second user, with is_admin=True.
FreshUserWitness ==
    /\ last.op = "create_user"
    /\ last.outcome = "ok"
    /\ last.target = 2
    /\ users[2].is_superuser

\* C4: a call of ready_to_authorize() returns true exactly when privacy,
\* consent and first_survey_done are all true, whatever the other fields
\* hold.
ReadyIffAllThreeFlags ==
    last.op = "ready_to_authorize" =>
        LET u == users[last.target] IN
            last.result = (u.privacy /\ u.consent /\ u.first_survey_done)

\* C4 witness: ready_to_authorize() returned true for a user who dropped
\* out, is not authorized and has a polar_id.
ReadyWitness ==
    /\ last.op = "ready_to_authorize"
    /\ last.result = TRUE
    /\ users[last.target].dropped_out
    /\ ~users[last.target].authorized
    /\ users[last.target].polar_id # PyNone

\* C5: the registration form rejects a submission, and stores no user, when
\* the email is empty or outside the allowed domain (an error on email),
\* when has_own_device is false (a non-field error), or when full_time,
\* do_not_foresee_changing_employer or will_return_tracker is false (an
\* error on that field).
RegisterRejectsBadSubmission ==
    last.op = "register" =>
        LET d == last.data IN
            /\ (d.email = EmptyEmail \/ d.email.domain # AllowedDomain)
                   => (last.outcome = "invalid" /\ "email" \in last.errors)
            /\ ~d.has_own_device
                   => (last.outcome = "invalid" /\ last.non_field_errors # {})
            /\ \A f \in {"full_time", "do_not_foresee_changing_employer",
                         "will_return_tracker"} :
                   ~d[f] => (last.outcome = "invalid" /\ f \in last.errors)

\* A submission with a well-formed email of the allowed domain, every
\* acknowledgement ticked and the same non-empty password twice.
CorrectSubmission(d) ==
    /\ d.email.local # ""
    /\ d.email.domain = AllowedDomain
    /\ d.has_own_device
    /\ d.full_time
    /\ d.do_not_foresee_changing_employer
    /\ d.will_return_tracker
    /\ d.password1 # ""
    /\ d.password1 = d.password2

\* The submission was saved: one row more, the old rows kept, exactly one
\* row with the submitted email, and that row has consent false.
SavedOneUser(d) ==
    /\ last'.outcome = "saved"
    /\ Len(users') = Len(users) + 1
    /\ SubSeq(users', 1, Len(users)) = users
    /\ Cardinality({i \in 1..Len(users') : users'[i].email = d.email}) = 1
    /\ \A i \in 1..Len(users') :
           users'[i].email = d.email => ~users'[i].consent

\* C6, as stated: every correct submission of the registration form is
\* valid and saving it adds exactly one user, retrievable by the email, with
\* consent false.
RegisterCorrectAlwaysSaved ==
    [][(last'.op = "register" /\ CorrectSubmission(last'.data))
       => SavedOneUser(last'.data)]_vars

\* C6, amended: a correct submission whose email no stored user has yet is
\* valid and saving it adds exactly one user, retrievable by the email, with
\* consent false.
RegisterCorrectNewEmailSaved ==
    [][(/\ last'.op = "register"
        /\ CorrectSubmission(last'.data)
        /\ \A i \in 1..Len(users) : users[i].email # last'.data.email)
       => SavedOneUser(last'.data)]_vars

\* C6 witness: a correct submission was saved as the second user.
RegisterSavedWitness ==
    /\ last.op = "register"
    /\ CorrectSubmission(last.data)
    /\ last.outcome = "saved"
    /\ last.target = 2
    /\ users[2].email = last.data.email

\* C7: saving the privacy form with privacy ticked leaves privacy true and
\* sends exactly one message when consent and first_survey_done were both
\* true before the save, and none otherwise.
PrivacySaveNotifiesOnce ==
    [][(last'.op = "privacy_form" /\ last'.data.privacy)
       => LET i == last'.target IN
              /\ last'.outcome = "saved"
              /\ users'[i].privacy
              /\ outbox' = outbox +
                     (IF users[i].consent /\ users[i].first_survey_done
                      THEN 1 ELSE 0)]_vars

\* C7 witness: the privacy form was saved for a user with consent and the
\* survey done, and one message has been sent.
PrivacySaveWitness ==
    /\ last.op = "privacy_form"
    /\ last.outcome = "saved"
    /\ users[last.target].consent
    /\ users[last.target].first_survey_done
    /\ users[last.target].privacy
    /\ outbox = 1

\* C8: every successful save of the consent form leaves consent true and
\* sends exactly one message when privacy and first_survey_done were both
\* true before the save, and none otherwise.
ConsentSaveNotifiesOnce ==
    [][(last'.op = "consent_form" /\ last'.outcome = "saved")
       => LET i == last'.target IN
              /\ users'[i].consent
              /\ outbox' = outbox +
                     (IF users[i].privacy /\ users[i].first_survey_done
                      THEN 1 ELSE 0)]_vars

\* C9: a consent form with one of field_1 .. field_6 false and a privacy
\* form with privacy false are invalid, the errors name exactly the false
\* fields, and the rejected submission changes no user and sends nothing.
AgreementFormsRejectUnticked ==
    [][/\ (/\ last'.op = "consent_form"
           /\ \E k \in 1..NumConsentFields : ~last'.data.fields[k])
          => /\ last'.outcome = "invalid"
             /\ last'.errors = {FieldNames[k] : k \in
                    {n \in 1..NumConsentFields : ~last'.data.fields[n]}}
             /\ users' = users
             /\ outbox' = outbox
       /\ (last'.op = "privacy_form" /\ ~last'.data.privacy)
          => /\ last'.outcome = "invalid"
             /\ last'.errors = {"privacy"}
             /\ users' = users
             /\ outbox' = outbox]_vars

\* C10: over privacy-form saves, consent-form saves and survey completions,
\* a step sends at most one message; a form save that makes the last of
\* privacy, consent and first_survey_done true sends one; a step that ends
\* with one of the three still false, or that changes no flag, sends none.
NotifiedOnLastFlagOnly ==
    [][(last'.op \in FormOps \cup {"first_survey"})
       => LET i == last'.target
              sent == outbox' - outbox
          IN  /\ sent \in {0, 1}
              /\ (/\ last'.op \in FormOps
                  /\ ~AllThree(users[i])
                  /\ AllThree(users'[i])) => sent = 1
              /\ (~AllThree(users'[i]) \/ users'[i] = users[i]) => sent = 0]_vars

=============================================================================
